---------------------------- MODULE Spec2Model ----------------------------
(***************************************************************************)
(* Conversation Orchestration Engine of the sales assistant.               *)
(*                                                                         *)
(* One ConversationOrchestrator per session (agents/orchestrator.py), the  *)
(* ConversationService stage model, scorer and profile merger              *)
(* (services/conversation.py), the six stage analyzers (agents/*.py), the  *)
(* generation service wrapper (services/gemini_api.py), the shared         *)
(* transcription service (services/assembly_ai.py) and the session         *)
(* registry of the transport (main-full-backup.py).                        *)
(*                                                                         *)
(* Encoding of text.  A text is the sequence of the indicator phrases that *)
(* occur in it, in order of occurrence; the Python test `kw in text` is    *)
(* membership of kw in that sequence.  The vocabulary below holds no       *)
(* phrase that contains another indicator of the source as a substring,    *)
(* so membership and the substring test agree on every model text.         *)
(* Scores and confidences are in hundredths (0.7 is 70).                   *)
(***************************************************************************)
EXTENDS Integers, Sequences, FiniteSets, TLC

\* ------------------------------------------------------------------------
\* Bounds of the model
\* ------------------------------------------------------------------------

\* Calls started over one behaviour (every public operation counts one) while
\* one session exists.
MaxOps == 3

\* Calls started over one behaviour once a second session exists.
MaxSharedOps == 2

\* Coroutines suspended at the same time in the generation call.
MaxCalls == 2

\* ------------------------------------------------------------------------
\* Generic helpers
\* ------------------------------------------------------------------------

Range(s) == {s[i] : i \in DOMAIN s}

\* A minimum that does not clamp
Unclamped(a, b) == a

Min(a, b) == IF a <= b THEN a ELSE b

Max(a, b) == IF a >= b THEN a ELSE b

IsPrefix(s, t) == Len(s) <= Len(t) /\ SubSeq(t, 1, Len(s)) = s

\* Python s[-n:]
LastN(s, n) == IF Len(s) <= n THEN s ELSE SubSeq(s, Len(s) - n + 1, Len(s))

\* Python [x for x in s if P(x)]
RECURSIVE SelectSeqOf(_, _)
SelectSeqOf(s, keep) ==
    IF s = << >> THEN << >>
    ELSE (IF Head(s) \in keep THEN <<Head(s)>> ELSE << >>) \o SelectSeqOf(Tail(s), keep)

None == "None"

\* ------------------------------------------------------------------------
\* Text
\* ------------------------------------------------------------------------

\* str.lower() on a phrase
Lower(tok) == IF tok = "Hello" THEN "hello" ELSE tok

\* text.lower(): the phrases of the lower-cased text
LowerText(text) == [i \in DOMAIN text |-> Lower(text[i])]

\* `kw in text`
Contains(text, kw) == kw \in Range(text)

\* any(kw in text for kw in kws)
ContainsAny(text, kws) == \E kw \in kws : Contains(text, kw)

\* sum(1 for kw in kws if kw in text)
CountIn(text, kws) == Cardinality({kw \in kws : Contains(text, kw)})

RECURSIVE StripLeft(_)
StripLeft(text) ==
    IF text # << >> /\ Head(text) = " " THEN StripLeft(Tail(text)) ELSE text

RECURSIVE StripRight(_)
StripRight(text) ==
    IF text # << >> /\ text[Len(text)] = " "
    THEN StripRight(SubSeq(text, 1, Len(text) - 1)) ELSE text

\* str.strip()
Strip(text) == StripRight(StripLeft(text))

\* " ".join(texts): the phrases of all the texts
RECURSIVE JoinTexts(_)
JoinTexts(texts) ==
    IF texts = << >> THEN << >> ELSE Head(texts) \o JoinTexts(Tail(texts))

\* text[:100]; every model text is shorter than 100 characters
First100(text) == IF Len(text) <= 100 THEN text ELSE SubSeq(text, 1, 100)

\* Utterances of the model.
\*   "Hello, we have a problem and it is urgent"
U_urgent == <<"Hello", "problem", "urgent">>
\*   "hello, the cost is an issue but i understand the value?"
U_cost == <<"hello", "cost", "issue", "but", "understand", "value", "?">>
\*   "hi, a difficult challenge"
U_chal == <<"hi", "difficult", "challenge">>
\*   "ok"
U_ok == <<"ok">>
\*   "Yes, let us proceed."
U_yes == <<"yes", "proceed">>
\*   "" and "   "
U_empty == << >>
U_blank == <<" ", " ">>

Utterances == {U_urgent, U_ok}

\* ------------------------------------------------------------------------
\* CustomerProfile and its merger
\* ------------------------------------------------------------------------

ScalarFields == {"name", "company", "role", "budget_range", "decision_authority",
                 "timeline", "sentiment"}

EmptyProfile ==
    [name |-> None, company |-> None, role |-> None,
     pain_points |-> << >>, interests |-> << >>,
     budget_range |-> None, decision_authority |-> None,
     timeline |-> None, sentiment |-> None]

\* Python truthiness of an optional string
\* A truth test that takes every value as set
AlwaysSet(v) == TRUE

Truthy(v) == v # None /\ v # ""

\* [p for p in new if p not in existing]
RECURSIVE NotIn(_, _)
NotIn(new, existing) ==
    IF new = << >> THEN << >>
    ELSE (IF Head(new) \in existing THEN << >> ELSE <<Head(new)>>)
         \o NotIn(Tail(new), existing)

\* A merger that appends every new item, seen before or not
AppendAll(old, new) == old \o new

\* A merger that keeps only the new items
ReplaceList(old, new) == new

\* profile.pain_points + new_pain_points
MergeList(old, new) == old \o NotIn(new, Range(old))

\* A scalar merge that also takes an empty value
OverwriteScalar(old, insights, f) ==
    IF f \in DOMAIN insights THEN insights[f] ELSE old

MergeScalar(old, insights, f) ==
    IF f \in DOMAIN insights /\ Truthy(insights[f]) THEN insights[f] ELSE old

\* new_insights is a function from the keys present to their values
update_customer_profile(profile, new_insights) ==
    [name |-> MergeScalar(profile.name, new_insights, "name"),
     company |-> MergeScalar(profile.company, new_insights, "company"),
     role |-> MergeScalar(profile.role, new_insights, "role"),
     pain_points |->
        IF "pain_points" \in DOMAIN new_insights
        THEN MergeList(profile.pain_points, new_insights["pain_points"])
        ELSE profile.pain_points,
     interests |->
        IF "interests" \in DOMAIN new_insights
        THEN MergeList(profile.interests, new_insights["interests"])
        ELSE profile.interests,
     budget_range |-> MergeScalar(profile.budget_range, new_insights, "budget_range"),
     decision_authority |->
        MergeScalar(profile.decision_authority, new_insights, "decision_authority"),
     timeline |-> MergeScalar(profile.timeline, new_insights, "timeline"),
     sentiment |-> MergeScalar(profile.sentiment, new_insights, "sentiment")]

pain_indicators == {"problem", "issue", "challenge", "difficult", "struggle", "frustrating"}
interest_indicators == {"interested", "like", "want", "need", "looking for"}
budget_indicators == {"budget", "cost", "price", "expensive", "cheap", "affordable"}
timeline_indicators == {"soon", "immediately", "urgent", "asap", "next month", "next quarter"}
timeline_urgent_words == {"soon", "immediately", "urgent", "asap"}

InsightKeys(text) ==
    LET tl == LowerText(text) IN
    (IF ContainsAny(tl, pain_indicators) THEN {"pain_points"} ELSE {})
    \cup (IF ContainsAny(tl, interest_indicators) THEN {"interests"} ELSE {})
    \cup (IF ContainsAny(tl, budget_indicators) THEN {"budget_range"} ELSE {})
    \cup (IF ContainsAny(tl, timeline_indicators) THEN {"timeline"} ELSE {})

\* The insight map: a function from the keys it holds to their values.
_extract_profile_insights(text) ==
    [k \in InsightKeys(text) |->
        CASE k = "pain_points" -> <<First100(text)>>
          [] k = "interests" -> <<First100(text)>>
          [] k = "budget_range" -> "mentioned"
          [] k = "timeline" ->
               IF ContainsAny(LowerText(text), timeline_urgent_words)
               THEN "urgent" ELSE "flexible"]

\* ------------------------------------------------------------------------
\* Stage model
\* ------------------------------------------------------------------------

Stages == {"opening", "discovery", "pitch", "objection", "closing"}

\* A stage table in which objection lists closing first
next_stages_closing_first(stage) ==
    CASE stage = "opening" -> <<"discovery">>
      [] stage = "discovery" -> <<"pitch", "objection">>
      [] stage = "pitch" -> <<"objection", "closing">>
      [] stage = "objection" -> <<"closing", "pitch", "discovery">>
      [] stage = "closing" -> << >>

\* SalesStage.next_stages, in list order
next_stages(stage) ==
    CASE stage = "opening" -> <<"discovery">>
      [] stage = "discovery" -> <<"pitch", "objection">>
      [] stage = "pitch" -> <<"objection", "closing">>
      [] stage = "objection" -> <<"pitch", "closing", "discovery">>
      [] stage = "closing" -> << >>

\* self.stage_transitions.get(current_stage, [])
get_valid_transitions(stage) ==
    CASE stage = "opening" -> {"discovery"}
      [] stage = "discovery" -> {"pitch", "objection"}
      [] stage = "pitch" -> {"objection", "closing"}
      [] stage = "objection" -> {"pitch", "closing", "discovery"}
      [] OTHER -> {}

\* ------------------------------------------------------------------------
\* Stage completion scorer and advance decision
\* ------------------------------------------------------------------------

Texts(msgs) == [i \in DOMAIN msgs |-> LowerText(msgs[i].text)]

CustomerMsgs(msgs) ==
    SelectSeqOf(msgs, {m \in Range(msgs) : m.speaker = "customer"})

AdvanceThreshold == 70

_calculate_stage_completion(stage, recent_messages, profile) ==
    CASE stage = "opening" ->
           LET has_greeting == \E m \in Range(recent_messages) :
                                  Contains(LowerText(m.text), "hello")
                                  \/ Contains(LowerText(m.text), "hi")
               has_engagement == Len(CustomerMsgs(recent_messages)) >= 2
           IN IF has_greeting /\ has_engagement THEN 80 ELSE 30
      [] stage = "discovery" ->
           LET pain_points_score == Min(Len(profile.pain_points) * 30, 100)
               qualification_score ==
                   IF Truthy(profile.budget_range) \/ Truthy(profile.timeline)
                   THEN 50 ELSE 0
           IN (pain_points_score + qualification_score) \div 2
      [] stage = "pitch" ->
           LET has_value_prop ==
                   ContainsAny(JoinTexts(Texts(recent_messages)),
                               {"value", "benefit", "solution", "help", "improve"})
               customer_questions ==
                   Len(SelectSeqOf(recent_messages,
                        {m \in Range(recent_messages) :
                            m.speaker = "customer" /\ Contains(m.text, "?")}))
           IN IF has_value_prop /\ customer_questions >= 1 THEN 70 ELSE 40
      [] stage = "objection" ->
           LET all == JoinTexts(Texts(recent_messages))
               has_objections ==
                   ContainsAny(all, {"concern", "worry", "but", "however", "issue"})
               has_resolution ==
                   ContainsAny(all, {"understand", "address", "solution", "resolve"})
           IN IF has_objections /\ has_resolution THEN 80 ELSE 30
      [] stage = "closing" ->
           LET has_commitment ==
                   ContainsAny(JoinTexts(Texts(CustomerMsgs(recent_messages))),
                               {"yes", "agree", "proceed", "forward", "start"})
           IN IF has_commitment THEN 90 ELSE 20
      [] OTHER -> 50

\* A decision that advances only above the threshold
determine_above_threshold(current_stage, history, profile) ==
    LET recent == IF Len(history) >= 5 THEN LastN(history, 5) ELSE history
        score == _calculate_stage_completion(current_stage, recent, profile)
        possible == next_stages(current_stage)
    IN IF score > AdvanceThreshold /\ possible # << >>
       THEN [should_advance |-> TRUE, next_stage |-> possible[1],
             completion_score |-> score]
       ELSE [should_advance |-> FALSE, next_stage |-> None,
             completion_score |-> score]

\* The result of determine_next_stage: should_advance, and next_stage when set.
determine_next_stage(current_stage, history, profile) ==
    IF current_stage \notin Stages
    THEN [should_advance |-> FALSE, next_stage |-> None, completion_score |-> -1]
    ELSE
      LET recent == IF Len(history) >= 5 THEN LastN(history, 5) ELSE history
          score == _calculate_stage_completion(current_stage, recent, profile)
          possible == next_stages(current_stage)
      IN IF score >= AdvanceThreshold /\ possible # << >>
         THEN [should_advance |-> TRUE,
               next_stage |->
                  IF current_stage = "discovery" /\ Len(profile.pain_points) >= 2
                  THEN "pitch"
                  ELSE IF current_stage = "pitch"
                          /\ \E m \in Range(recent) :
                                m.speaker = "customer"
                                /\ (Contains(LowerText(m.text), "concern")
                                    \/ Contains(LowerText(m.text), "but"))
                  THEN "objection"
                  ELSE possible[1],
               completion_score |-> score]
         ELSE [should_advance |-> FALSE, next_stage |-> None,
               completion_score |-> score]

\* ------------------------------------------------------------------------
\* Generation collaborator and its wrapper (GeminiAPIService)
\* ------------------------------------------------------------------------

AgentKeys == {"opening", "discovery", "pitch", "objection", "closing", "interrupt"}

\* Suggestion.type: Literal[...]
SuggestionTypes == {"question", "statement", "objection_response", "closing"}

\* Texts the generation backend returns in the model.
\*   "What is the biggest challenge you face today?"
G_what == <<"what", "challenge", "?">>
\*   "Thanks, that is good to know."
G_plain == <<"thanks">>

NoConf == -1

\* What model.generate_content does on one call: it raises ("error"), returns
\* JSON that decodes to something that is not an object ("nondict"), returns
\* text that holds no JSON object ("text"), or returns a JSON object with a
\* "suggestion" and possibly a "confidence" ("json").
GenOutcomes ==
    { [kind |-> "error", text |-> << >>, conf |-> NoConf],
      [kind |-> "nondict", text |-> << >>, conf |-> NoConf],
      [kind |-> "text", text |-> G_plain, conf |-> NoConf],
      [kind |-> "json", text |-> G_what, conf |-> 90],
      [kind |-> "json", text |-> G_plain, conf |-> NoConf],
      [kind |-> "json", text |-> G_plain, conf |-> 150] }

\* A response dict: the keys it holds (has_*) and their values.
Dict(text, type, conf) ==
    [is_dict |-> TRUE, has_text |-> TRUE, text |-> text,
     has_type |-> TRUE, type |-> type, has_conf |-> TRUE, conf |-> conf]

NonDict ==
    [is_dict |-> FALSE, has_text |-> FALSE, text |-> << >>,
     has_type |-> FALSE, type |-> "", has_conf |-> FALSE, conf |-> NoConf]

\* The "suggestion" of each entry of GeminiAPIService._get_fallback_response
GeminiFallbackText(agent_type) ==
    CASE agent_type = "opening" -> <<"thank you", "help">>
      [] agent_type = "pitch" -> <<"based on", "solution", "address", "looking for">>
      [] agent_type = "objection" -> <<"understand", "concern", "address">>
      [] agent_type = "closing" -> <<"based on", "what", "?", "move forward">>
      [] OTHER -> <<"that's interesting", "could", "how", "?">>

\* fallbacks.get(agent_type, fallbacks["discovery"])
_get_fallback_response(agent_type) ==
    Dict(GeminiFallbackText(agent_type),
         IF agent_type \in AgentKeys \ {"interrupt"} THEN agent_type ELSE "discovery",
         50)

\* _parse_suggestion_response on the text the backend returned
_parse_suggestion_response(outcome, agent_type) ==
    CASE outcome.kind = "json" ->
           [is_dict |-> TRUE, has_text |-> TRUE, text |-> outcome.text,
            has_type |-> FALSE, type |-> "",
            has_conf |-> outcome.conf # NoConf, conf |-> outcome.conf]
      [] outcome.kind = "nondict" -> NonDict
      [] OTHER -> Dict(Strip(outcome.text), agent_type, 80)

\* GeminiAPIService.generate_suggestion: every exception ends in the fallback
gemini_generate_suggestion(outcome, agent_type) ==
    IF outcome.kind = "error"
    THEN _get_fallback_response(agent_type)
    ELSE _parse_suggestion_response(outcome, agent_type)

\* ------------------------------------------------------------------------
\* Stage analyzers
\* ------------------------------------------------------------------------

_enhance_opening_type(ctx) ==
    LET message_count == Len(ctx.conversation_history) IN
    IF message_count = 0 THEN "greeting"
    ELSE IF message_count <= 3 THEN "rapport_building"
    ELSE IF message_count <= 5 THEN "agenda_setting"
    ELSE "transition"

_enhance_discovery_type(suggestion) ==
    IF Contains(suggestion, "?")
    THEN IF suggestion # << >>
            /\ Lower(Head(suggestion)) \in {"what", "how", "why", "tell me", "describe"}
         THEN "open_question" ELSE "clarification"
    ELSE "statement"

_enhance_pitch_type(suggestion) ==
    LET sl == LowerText(suggestion) IN
    IF ContainsAny(sl, {"save", "roi", "return", "investment"}) THEN "roi_demo"
    ELSE IF ContainsAny(sl, {"feature", "capability", "helps", "enables"})
         THEN "feature_benefit"
    ELSE IF ContainsAny(sl, {"client", "customer", "example", "case"}) THEN "proof_point"
    ELSE IF Contains(suggestion, "?") THEN "trial_close"
    ELSE "value_proposition"

_determine_framework_step(suggestion) ==
    LET sl == LowerText(suggestion) IN
    IF ContainsAny(sl, {"understand", "hear", "appreciate", "see"}) THEN "acknowledge"
    ELSE IF Contains(suggestion, "?") \/ ContainsAny(sl, {"help me", "clarify", "explain"})
         THEN "clarify"
    ELSE IF ContainsAny(sl, {"however", "actually", "fact", "example", "case"})
         THEN "evidence"
    ELSE IF ContainsAny(sl, {"think about", "consider", "perspective", "way"})
         THEN "reframe"
    ELSE IF ContainsAny(sl, {"make sense", "address", "resolve", "move forward"})
         THEN "close"
    ELSE "acknowledge"

_enhance_closing_type(suggestion) ==
    LET sl == LowerText(suggestion) IN
    IF Contains(suggestion, "?") /\ ContainsAny(sl, {"ready", "move forward", "get started"})
    THEN "trial_close"
    ELSE IF ContainsAny(sl, {"summary", "recap", "benefits", "value"}) THEN "summary"
    ELSE IF ContainsAny(sl, {"next", "step", "timeline", "implementation"})
         THEN "next_steps"
    ELSE IF ContainsAny(sl, {"when", "how", "start"}) THEN "implementation"
    ELSE "ask"

_enhance_interrupt_type(suggestion) ==
    LET sl == LowerText(suggestion) IN
    IF ContainsAny(sl, {"recap", "summary", "discussed"}) THEN "summarize"
    ELSE IF ContainsAny(sl, {"back to", "return to", "continue"}) THEN "redirect"
    ELSE IF ContainsAny(sl, {"understand", "appreciate", "hear"}) THEN "acknowledge"
    ELSE "bridge"

\* ObjectionAgent._analyze_objection: analysis["intensity"] == "high"
HighIntensity(ctx) ==
    LET customer_messages == CustomerMsgs(ctx.recent_messages)
        recent_text == JoinTexts(Texts(LastN(customer_messages, 3)))
    IN ContainsAny(recent_text,
                   {"absolutely", "definitely", "never", "impossible", "can't", "won't"})

\* The type tag each analyzer's enhancer assigns to a response
EnhancedType(agent, suggestion, ctx) ==
    CASE agent = "opening" -> _enhance_opening_type(ctx)
      [] agent = "discovery" -> _enhance_discovery_type(suggestion)
      [] agent = "pitch" -> _enhance_pitch_type(suggestion)
      [] agent = "objection" -> _determine_framework_step(suggestion)
      [] agent = "closing" -> _enhance_closing_type(suggestion)
      [] agent = "interrupt" -> _enhance_interrupt_type(suggestion)

\* Confidence of each analyzer's own fallback response
AgentFallbackConfidence(agent) == IF agent = "interrupt" THEN 50 ELSE 60

\* _get_fallback_<stage>_response; the interrupt fallback holds neither a
\* "suggestion" nor a "type"
AgentFallback(agent) ==
    CASE agent = "opening" -> Dict(<<"thank you", "help">>, "greeting", 60)
      [] agent = "discovery" ->
           Dict(<<"help me", "understand", "what", "challenge", "?">>, "open_question", 60)
      [] agent = "pitch" ->
           Dict(<<"based on", "challenge", "solution">>, "value_proposition", 60)
      [] agent = "objection" ->
           Dict(<<"understand", "concern", "appreciate", "address">>, "acknowledge", 60)
      [] agent = "closing" ->
           Dict(<<"based on", "solution", "ready", "move forward", "?">>, "trial_close", 60)
      [] agent = "interrupt" ->
           [is_dict |-> TRUE, has_text |-> FALSE, text |-> << >>,
            has_type |-> FALSE, type |-> "", has_conf |-> TRUE, conf |-> 50]

\* <Stage>Agent.generate_suggestion after the generation service has answered:
\* the enhancer's result, or the analyzer's fallback when the enhancer raises
\* (response.get on something that is not a dict).
AgentResponse(agent, response, ctx) ==
    IF ~response.is_dict THEN AgentFallback(agent)
    ELSE LET suggestion == IF response.has_text THEN response.text ELSE << >>
             conf == IF agent = "objection" /\ HighIntensity(ctx)
                     THEN Max(50, (IF response.has_conf THEN response.conf ELSE 80) - 20)
                     ELSE response.conf
         IN [response EXCEPT !.has_type = TRUE,
                             !.type = EnhancedType(agent, suggestion, ctx),
                             !.has_conf = response.has_conf
                                          \/ (agent = "objection" /\ HighIntensity(ctx)),
                             !.conf = conf]

\* ------------------------------------------------------------------------
\* Interrupt classifier (InterruptAgent)
\* ------------------------------------------------------------------------

\* The keys of interrupt_types, in dict order
InterruptTypeOrder ==
    <<"question", "objection", "tangent", "clarification",
      "urgency", "emotional", "information", "positive">>

interrupt_indicators(t) ==
    CASE t = "question" -> {"?", "how", "what", "when", "where", "why", "can you"}
      [] t = "objection" -> {"but", "however", "concern", "worry", "issue", "problem"}
      [] t = "tangent" -> {"by the way", "also", "speaking of", "reminds me"}
      [] t = "clarification" -> {"wait", "hold on", "confused", "don't understand"}
      [] t = "urgency" -> {"urgent", "important", "immediately", "asap", "emergency"}
      [] t = "emotional" -> {"frustrated", "angry", "upset", "disappointed"}
      [] t = "information" -> {"just to let you know", "forgot to mention", "by the way"}
      [] t = "positive" -> {"great", "excellent", "love", "perfect", "amazing"}

interrupt_priority(t) ==
    CASE t \in {"question", "objection", "clarification"} -> "high"
      [] t \in {"tangent", "positive"} -> "medium"
      [] t \in {"urgency", "emotional"} -> "critical"
      [] t = "information" -> "low"

\* A loop in which a type also replaces the best one when it ties with it
RECURSIVE ClassifyKeepLast(_, _, _)
ClassifyKeepLast(i, text_lower, best) ==
    IF i > Len(InterruptTypeOrder) THEN best
    ELSE LET t == InterruptTypeOrder[i]
             score == CountIn(text_lower, interrupt_indicators(t))
         IN ClassifyKeepLast(i + 1, text_lower,
                             IF score >= best.max_score
                             THEN [interrupt_type |-> t, max_score |-> score]
                             ELSE best)

\* The loop of _analyze_interruption from position i on: a type replaces the
\* best one only when its score is strictly greater.
RECURSIVE ClassifyFrom(_, _, _)
ClassifyFrom(i, text_lower, best) ==
    IF i > Len(InterruptTypeOrder) THEN best
    ELSE LET t == InterruptTypeOrder[i]
             score == CountIn(text_lower, interrupt_indicators(t))
         IN ClassifyFrom(i + 1, text_lower,
                         IF score > best.max_score
                         THEN [interrupt_type |-> t, max_score |-> score]
                         ELSE best)

\* interrupt_type and max_score after the loop
_analyze_interruption(text) ==
    ClassifyFrom(1, Strip(LowerText(text)),
                 [interrupt_type |-> "general", max_score |-> 0])

_get_fallback_interrupt_response ==
    [interrupt_type |-> "general", priority |-> "medium", confidence |-> 50,
     analyzer_failed |-> TRUE]

\* InterruptAgent.handle_interrupt: interrupt_types has no "general" key, so
\* the priority lookup of an unmatched text raises and the fallback is returned
interrupt_agent_handle_interrupt(text) ==
    LET a == _analyze_interruption(text) IN
    IF a.interrupt_type = "general" THEN _get_fallback_interrupt_response
    ELSE [interrupt_type |-> a.interrupt_type,
          priority |-> interrupt_priority(a.interrupt_type),
          confidence |-> Min(90, 50 + a.max_score * 10),
          analyzer_failed |-> FALSE]

NoResponse ==
    [interrupt_type |-> None, priority |-> None, confidence |-> 0,
     analyzer_failed |-> FALSE]

\* len(text) > 50 or "?" in text: the texts classified here are a few short
\* phrases, under 50 characters, so the length test adds nothing
_assess_flow_impact(interrupt_type, text) ==
    CASE interrupt_type \in {"urgency", "emotional"} -> "high"
      [] interrupt_type \in {"objection", "clarification"} -> "high"
      [] interrupt_type = "question" ->
           IF Contains(text, "?") THEN "medium" ELSE "low"
      [] interrupt_type \in {"tangent", "information"} -> "medium"
      [] interrupt_type = "positive" -> "low"
      [] OTHER -> "medium"

\* The analysis _analyze_interruption returns; the priority lookup of the
\* type "general" raises KeyError
interrupt_analysis(text) ==
    LET a == _analyze_interruption(text) IN
    IF a.interrupt_type = "general"
    THEN [raised |-> TRUE, type |-> "general", priority |-> None,
          flow_impact |-> None]
    ELSE [raised |-> FALSE, type |-> a.interrupt_type,
          priority |-> interrupt_priority(a.interrupt_type),
          flow_impact |-> _assess_flow_impact(a.interrupt_type,
                                              Strip(LowerText(text)))]

should_pause_main_conversation(analysis) ==
    \/ analysis.priority \in {"critical", "high"}
    \/ analysis.flow_impact = "high"
    \/ analysis.type \in {"urgency", "emotional", "clarification"}

\* ------------------------------------------------------------------------
\* Suggestion pipeline of the orchestrator
\* ------------------------------------------------------------------------

Speakers == {"seller", "customer"}

NoSuggestion == [text |-> << >>, type |-> None, confidence |-> 0, stage |-> None]

\* "Continue the conversation naturally."
DefaultSuggestionText == <<"continue">>

\* self.agents.get(self.current_stage), else self.agents["discovery"]
AgentFor(stage) == IF stage \in AgentKeys THEN stage ELSE "discovery"

\* The AgentContext built from the session
BuildContext(o) ==
    [current_stage |-> o.current_stage,
     customer_profile |-> o.customer_profile,
     recent_messages |-> LastN(o.conversation_history, 5),
     conversation_history |-> o.conversation_history,
     context_stack |-> o.context_stack]

\* A Suggestion whose type is not validated
MakeUnvalidated(agent_response, stage) ==
    [exc |-> FALSE,
     suggestion |-> [text |-> IF agent_response.has_text THEN agent_response.text
                              ELSE DefaultSuggestionText,
                     type |-> IF agent_response.has_type THEN agent_response.type
                              ELSE "statement",
                     confidence |-> IF agent_response.has_conf THEN agent_response.conf
                                    ELSE 80,
                     stage |-> stage],
     stored |-> TRUE, path |-> "normal"]

\* Suggestion(...) built from the analyzer's response; exc when validation
\* of type or confidence rejects it
MakeSuggestion(agent_response, stage) ==
    LET sg == [text |-> IF agent_response.has_text THEN agent_response.text
                        ELSE DefaultSuggestionText,
               type |-> IF agent_response.has_type THEN agent_response.type
                        ELSE "statement",
               confidence |-> IF agent_response.has_conf THEN agent_response.conf
                              ELSE 80,
               stage |-> stage]
        valid == sg.type \in SuggestionTypes /\ sg.confidence >= 0 /\ sg.confidence <= 100
    IN [exc |-> ~valid, suggestion |-> sg, stored |-> valid, path |-> "normal"]

\* A handler without the except clause: the exception leaves the call
NoExcept(r, stage) == r

\* The except clause of generate_next_suggestion
GenerateExcept(r, stage) ==
    IF r.exc
    THEN [exc |-> FALSE,
          suggestion |-> [text |-> <<"that's interesting", "could", "?">>,
                          type |-> "question", confidence |-> 50, stage |-> stage],
          stored |-> FALSE, path |-> "except"]
    ELSE r

\* generate_next_suggestion from the point where the generation call answers
generate_next_suggestion(agent, ctx, outcome, stage) ==
    GenerateExcept(
        MakeSuggestion(
            AgentResponse(agent, gemini_generate_suggestion(outcome, agent), ctx),
            stage),
        stage)

\* ------------------------------------------------------------------------
\* Context stack entries and messages
\* ------------------------------------------------------------------------

InterruptEntry(stage, timestamp, speaker, text) ==
    [kind |-> "interrupted", stage |-> stage, from_stage |-> None, to_stage |-> None,
     timestamp |-> timestamp, speaker |-> speaker, text |-> text]

StageTransitionEntry(previous_stage, target_stage, now) ==
    [kind |-> "stage_transition", stage |-> None, from_stage |-> previous_stage,
     to_stage |-> target_stage, timestamp |-> now, speaker |-> None, text |-> << >>]

\* A push that overwrites the top entry instead of growing the stack
PushReplacingTop(stack, entry) ==
    IF stack = << >> THEN <<entry>>
    ELSE [stack EXCEPT ![Len(stack)] = entry]

\* self.context_stack.append(entry)
PushContext(stack, entry) == Append(stack, entry)

\* Message(...): kind is metadata["type"] ("transcript" when there is none)
Message(speaker, text, stage, kind) ==
    [speaker |-> speaker, text |-> text, stage |-> stage, kind |-> kind]

\* ------------------------------------------------------------------------
\* State
\* ------------------------------------------------------------------------

SessionIds == {"s1", "s2"}

\* The ids start_session draws, in the order it draws them
SessionIdOrder == <<"s1", "s2">>

\* Coroutines that can be suspended in the generation call at one time
CallIds == 1..MaxCalls

\* target_stage values of advance_conversation_stage: any string is accepted
Targets == {"discovery", "objection", "closing", "interrupt", "bogus"}

\* Transcription events delivered to _on_transcription_received.  is_final is
\* the value of transcription_data.get("is_final", False): FALSE also stands
\* for an event without the key.
Events ==
    { [is_final |-> TRUE, text |-> U_chal, speaker |-> "customer"],
      [is_final |-> TRUE, text |-> U_cost, speaker |-> "customer"],
      [is_final |-> TRUE, text |-> U_yes, speaker |-> "customer"],
      [is_final |-> TRUE, text |-> U_cost, speaker |-> "seller"],
      [is_final |-> FALSE, text |-> U_chal, speaker |-> "customer"],
      [is_final |-> TRUE, text |-> U_blank, speaker |-> "customer"],
      [is_final |-> TRUE, text |-> U_ok, speaker |-> None] }

\* Arguments of handle_interrupt: <<speaker, text>>
Interrupts == {<<"customer", U_urgent>>, <<"seller", U_ok>>}

VARIABLES
    active_sessions,    \* main: the keys of the active_sessions registry
    orch,               \* the ConversationOrchestrator of every session created
    message_callbacks,  \* AssemblyAIService.message_callbacks (shared)
    is_connected,       \* AssemblyAIService.is_connected (shared)
    calls,              \* coroutines suspended in the generation call
    started,            \* the last call started and its arguments
    ret,                \* the last call that returned and its result
    probe               \* the pure function under study, its inputs and result

vars == <<active_sessions, orch, message_callbacks, is_connected, calls, started, ret,
          probe>>

\* No pure function is under study
NoProbe == [fn |-> None]

\* ConversationOrchestrator.__init__
NewOrchestrator ==
    [current_stage |-> "opening",
     customer_profile |-> EmptyProfile,
     conversation_history |-> << >>,
     context_stack |-> << >>,
     last_suggestion |-> NoSuggestion,
     audio_processing_active |-> FALSE]

NoContext ==
    [current_stage |-> None, customer_profile |-> EmptyProfile,
     recent_messages |-> << >>, conversation_history |-> << >>,
     context_stack |-> << >>]

Idle == [pc |-> "idle", sid |-> None, agent |-> None, ctx |-> NoContext,
         orphaned |-> FALSE]

NoCall ==
    [n |-> 0, op |-> None, sid |-> None, target |-> None, advanced_to |-> None,
     speaker |-> None, text |-> << >>, is_final |-> FALSE]

NoReturn ==
    [op |-> None, sid |-> None, raised |-> FALSE, path |-> None,
     collaborator_failed |-> FALSE, agent |-> None, suggestion |-> NoSuggestion,
     response |-> NoResponse]

Init ==
    /\ active_sessions = {}
    /\ orch = [s \in {} |-> NewOrchestrator]
    /\ message_callbacks = << >>
    /\ is_connected = FALSE
    /\ calls = [c \in CallIds |-> Idle]
    /\ started = NoCall
    /\ ret = NoReturn
    /\ probe = NoProbe

\* session_id = str(uuid.uuid4()): an id no session has had
NewSessionId ==
    IF Cardinality(DOMAIN orch) < Len(SessionIdOrder)
    THEN SessionIdOrder[Cardinality(DOMAIN orch) + 1] ELSE None

\* The current time: calls are stamped in the order they start
Now == started.n + 1

\* The cap on the number of calls of one behaviour
MoreOps ==
    started.n < (IF Cardinality(DOMAIN orch) > 1 THEN MaxSharedOps ELSE MaxOps)

HasFreeCall == \E c \in CallIds : calls[c].pc = "idle"

FreeCall == CHOOSE c \in CallIds :
                calls[c].pc = "idle" /\ \A d \in CallIds : d < c => calls[d].pc # "idle"

\* generate_next_suggestion up to its await on the analyzer: the analyzer is
\* chosen and the context is built before the coroutine suspends
Suspend(s, o, pc) ==
    [calls EXCEPT ![FreeCall] =
        [pc |-> pc, sid |-> s, agent |-> AgentFor(o.current_stage),
         ctx |-> BuildContext(o), orphaned |-> FALSE]]

Call(op, s, target, advanced_to, speaker, text) ==
    [n |-> Now, op |-> op, sid |-> s, target |-> target, advanced_to |-> advanced_to,
     speaker |-> speaker, text |-> text, is_final |-> FALSE]

\* ------------------------------------------------------------------------
\* Handlers, up to their first suspension
\* ------------------------------------------------------------------------

\* An advance that rejects a target outside the legal transitions
advance_if_valid(o, target_stage, now) ==
    IF target_stage \in get_valid_transitions(o.current_stage) \cup {o.current_stage}
    THEN [o EXCEPT !.current_stage = target_stage,
                   !.context_stack =
                       Append(@, StageTransitionEntry(o.current_stage, target_stage, now))]
    ELSE o

\* An advance that reads previous_stage after the stage was assigned
advance_reading_stage_late(o, target_stage, now) ==
    [o EXCEPT !.current_stage = target_stage,
              !.context_stack =
                  PushContext(@, StageTransitionEntry(target_stage, target_stage, now))]

\* advance_conversation_stage up to its call of generate_next_suggestion
advance_conversation_stage(o, target_stage, now) ==
    [o EXCEPT !.current_stage = target_stage,
              !.context_stack =
                  PushContext(@, StageTransitionEntry(o.current_stage, target_stage, now))]

\* process_customer_input: the profile update
pci_update_profile(o, text) ==
    LET profile_insights == _extract_profile_insights(text) IN
    IF DOMAIN profile_insights # {}
    THEN [o EXCEPT !.customer_profile = update_customer_profile(@, profile_insights)]
    ELSE o

pci_stage_analysis(o, text) ==
    LET o1 == pci_update_profile(o, text) IN
    determine_next_stage(o1.current_stage, o1.conversation_history, o1.customer_profile)

\* An input handler that skips a stage: it advances to the last next stage
process_skipping_ahead(o, text, now) ==
    LET o1 == pci_update_profile(o, text)
        stage_analysis == pci_stage_analysis(o, text)
        possible == next_stages(o1.current_stage)
    IN IF stage_analysis.should_advance
       THEN advance_conversation_stage(o1, IF o1.current_stage = "opening"
                                           THEN "pitch"
                                           ELSE possible[Len(possible)], now)
       ELSE o1

\* process_customer_input up to its first suspension
process_customer_input(o, text, now) ==
    LET o1 == pci_update_profile(o, text)
        stage_analysis == pci_stage_analysis(o, text)
    IN IF stage_analysis.should_advance
       THEN advance_conversation_stage(o1, stage_analysis.next_stage, now)
       ELSE o1

\* An interrupt handler that keeps only the newest message of the history
interrupt_trims_history(o, speaker, text, timestamp) ==
    [o EXCEPT !.context_stack =
                  Append(@, InterruptEntry(o.current_stage, timestamp, speaker, text)),
              !.conversation_history =
                  <<Message(speaker, text, o.current_stage, "interrupt")>>]

\* An interrupt handler that parks the session in a transient interrupt stage
interrupt_switches_stage(o, speaker, text, timestamp) ==
    [o EXCEPT !.current_stage = "interrupt",
              !.context_stack =
                  Append(@, InterruptEntry(o.current_stage, timestamp, speaker, text)),
              !.conversation_history =
                  Append(@, Message(speaker, text, o.current_stage, "interrupt"))]

\* handle_interrupt: the whole handler (it never suspends)
handle_interrupt(o, speaker, text, timestamp) ==
    LET o1 == [o EXCEPT !.context_stack =
                   PushContext(@, InterruptEntry(o.current_stage, timestamp, speaker, text))]
    IN IF speaker \in Speakers
       THEN [o1 EXCEPT !.conversation_history =
                Append(@, Message(speaker, text, o.current_stage, "interrupt"))]
       ELSE o1

\* ------------------------------------------------------------------------
\* Actions
\* ------------------------------------------------------------------------

\* main.start_session: a new orchestrator registers its transcription callback
\* on the shared service and is stored in the registry
StartSession(s) ==
    /\ s = NewSessionId
    /\ DOMAIN orch = {} \/ started.n < MaxSharedOps
    /\ orch' = [t \in DOMAIN orch \cup {s} |-> IF t = s THEN NewOrchestrator ELSE orch[t]]
    /\ message_callbacks' = Append(message_callbacks, s)
    /\ active_sessions' = active_sessions \cup {s}
    /\ UNCHANGED <<probe, is_connected, calls, started, ret>>

\* generate_next_suggestion called by the transport
GenerateNextSuggestion(s) ==
    /\ s \in active_sessions
    /\ MoreOps
    /\ HasFreeCall
    /\ calls' = Suspend(s, orch[s], "gen")
    /\ started' = Call("generate_next_suggestion", s, None, None, None, << >>)
    /\ UNCHANGED <<probe, active_sessions, orch, message_callbacks, is_connected, ret>>

\* advance_conversation_stage called by the transport
AdvanceConversationStage(s, target_stage) ==
    /\ s \in active_sessions
    /\ MoreOps
    /\ HasFreeCall
    /\ LET o1 == advance_conversation_stage(orch[s], target_stage, Now) IN
         /\ orch' = [orch EXCEPT ![s] = o1]
         /\ calls' = Suspend(s, o1, "adv")
    /\ started' = Call("advance_conversation_stage", s, target_stage, target_stage,
                       None, << >>)
    /\ UNCHANGED <<probe, active_sessions, message_callbacks, is_connected, ret>>

\* process_customer_input called on its own
ProcessCustomerInput(s, text) ==
    /\ s \in active_sessions
    /\ MoreOps
    /\ HasFreeCall
    /\ LET o1 == process_customer_input(orch[s], text, Now)
           stage_analysis == pci_stage_analysis(orch[s], text)
       IN /\ orch' = [orch EXCEPT ![s] = o1]
          /\ calls' = Suspend(s, o1, IF stage_analysis.should_advance
                                     THEN "pci_adv" ELSE "pci")
          /\ started' = Call("process_customer_input", s, None,
                             stage_analysis.next_stage, None, text)
    /\ UNCHANGED <<probe, active_sessions, message_callbacks, is_connected, ret>>

\* handle_interrupt called by the transport
HandleInterrupt(s, speaker, text) ==
    /\ s \in active_sessions
    /\ MoreOps
    /\ orch' = [orch EXCEPT ![s] = handle_interrupt(@, speaker, text, Now)]
    /\ started' = Call("handle_interrupt", s, None, None, speaker, text)
    /\ ret' = [NoReturn EXCEPT !.op = "handle_interrupt", !.sid = s,
                               !.path = IF speaker \in Speakers THEN "normal" ELSE "except",
                               !.response = interrupt_agent_handle_interrupt(text)]
    /\ UNCHANGED <<probe, active_sessions, message_callbacks, is_connected, calls>>

\* A handler that forgets the is_final test
AcceptsPartial(ev) ==
    Strip(ev.text) # << >> /\ ev.speaker \in Speakers

\* _on_transcription_received: the event gets past both early returns and
\* Message(...) accepts its speaker
EventAccepted(ev) ==
    ev.is_final /\ Strip(ev.text) # << >> /\ ev.speaker \in Speakers

\* _on_transcription_received of session s run on one event.  The callback
\* stays registered on the shared service after cleanup.
OnTranscriptionReceived(s, ev) ==
    /\ s \in DOMAIN orch
    /\ MoreOps
    /\ LET text == Strip(ev.text)
           accepted == EventAccepted(ev)
           o1 == [orch[s] EXCEPT !.conversation_history =
                     Append(@, Message(ev.speaker, text, orch[s].current_stage,
                                       "transcript"))]
           stage_analysis == pci_stage_analysis(o1, text)
       IN IF accepted /\ ev.speaker = "customer"
          THEN /\ HasFreeCall
               /\ orch' = [orch EXCEPT ![s] = process_customer_input(o1, text, Now)]
               /\ calls' = Suspend(s, process_customer_input(o1, text, Now),
                                   IF stage_analysis.should_advance
                                   THEN "pci_adv" ELSE "pci")
               /\ started' = [Call("_on_transcription_received", s, None,
                                   stage_analysis.next_stage, ev.speaker, ev.text)
                               EXCEPT !.is_final = ev.is_final]
          ELSE /\ orch' = [orch EXCEPT ![s] = IF accepted THEN o1 ELSE @]
               /\ started' = [Call("_on_transcription_received", s, None, None,
                                   ev.speaker, ev.text)
                               EXCEPT !.is_final = ev.is_final]
               /\ UNCHANGED calls
    /\ UNCHANGED <<probe, active_sessions, message_callbacks, is_connected, ret>>

\* AssemblyAIService._on_data: every registered callback is called with the
\* event; each call only creates a coroutine object that nothing awaits, so no
\* handler body runs
OnData(ev) ==
    /\ is_connected
    /\ MoreOps
    /\ ev.text # << >>
    /\ started' = Call("_on_data", None, None, None, None, << >>)
    /\ UNCHANGED <<probe, active_sessions, orch, message_callbacks, is_connected, calls, ret>>

\* start_audio_processing: connect of the shared service succeeds or raises
StartAudioProcessing(s, connected) ==
    /\ s \in active_sessions
    /\ MoreOps
    /\ IF connected
       THEN /\ is_connected' = TRUE
            /\ orch' = [orch EXCEPT ![s].audio_processing_active = TRUE]
       ELSE UNCHANGED <<is_connected, orch>>
    /\ started' = Call("start_audio_processing", s, None, None, None, << >>)
    /\ UNCHANGED <<probe, active_sessions, message_callbacks, calls, ret>>

\* main.cleanup_session: orchestrator.cleanup() stops the audio and
\* disconnects the shared service; the registry entry is deleted.  The
\* coroutines of the session that are suspended stay suspended.
CleanupSession(s) ==
    /\ s \in active_sessions
    /\ MoreOps
    /\ orch' = [orch EXCEPT ![s].audio_processing_active = FALSE]
    /\ is_connected' = FALSE
    /\ active_sessions' = active_sessions \ {s}
    /\ calls' = [c \in CallIds |->
                    IF calls[c].pc # "idle" /\ calls[c].sid = s
                    THEN [calls[c] EXCEPT !.orphaned = TRUE] ELSE calls[c]]
    /\ started' = Call("cleanup_session", s, None, None, None, << >>)
    /\ UNCHANGED <<probe, message_callbacks, ret>>

\* The operation that returns when the coroutine at pc resumes
ReturningOp(pc) ==
    CASE pc = "gen" -> "generate_next_suggestion"
      [] pc = "adv" -> "advance_conversation_stage"
      [] pc = "pci_adv" -> "advance_conversation_stage"
      [] pc = "pci" -> "process_customer_input"

\* The generation call of coroutine c answers: generate_next_suggestion runs
\* to its return, then its caller runs to its own return or, in
\* process_customer_input after a stage change, into the second
\* generate_next_suggestion
GeminiReturn(c, outcome) ==
    /\ calls[c].pc # "idle"
    /\ LET call == calls[c]
           s == call.sid
           o == orch[s]
           r == generate_next_suggestion(call.agent, call.ctx, outcome, o.current_stage)
           o1 == IF r.stored THEN [o EXCEPT !.last_suggestion = r.suggestion] ELSE o
       IN /\ orch' = [orch EXCEPT ![s] = o1]
          /\ calls' = [calls EXCEPT ![c] =
                          IF call.pc = "pci_adv"
                          THEN [pc |-> "pci", sid |-> s,
                                agent |-> AgentFor(o1.current_stage),
                                ctx |-> BuildContext(o1), orphaned |-> call.orphaned]
                          ELSE Idle]
          /\ ret' = [op |-> ReturningOp(call.pc), sid |-> s,
                     raised |-> r.exc /\ call.pc = "gen",
                     path |-> r.path,
                     collaborator_failed |-> outcome.kind = "error",
                     agent |-> call.agent,
                     suggestion |-> r.suggestion,
                     response |-> NoResponse]
    /\ UNCHANGED <<probe, active_sessions, message_callbacks, is_connected, started>>

Next ==
    \/ \E s \in SessionIds : StartSession(s)
    \/ \E s \in SessionIds : GenerateNextSuggestion(s)
    \/ \E s \in SessionIds, target_stage \in Targets :
          AdvanceConversationStage(s, target_stage)
    \/ \E s \in SessionIds, text \in Utterances : ProcessCustomerInput(s, text)
    \/ \E s \in SessionIds, i \in Interrupts : HandleInterrupt(s, i[1], i[2])
    \/ \E s \in SessionIds, ev \in Events : OnTranscriptionReceived(s, ev)
    \/ \E ev \in Events : OnData(ev)
    \/ \E s \in SessionIds, connected \in BOOLEAN : StartAudioProcessing(s, connected)
    \/ \E s \in SessionIds : CleanupSession(s)
    \/ \E c \in CallIds, outcome \in GenOutcomes : GeminiReturn(c, outcome)

Spec == Init /\ [][Next]_vars

\* ------------------------------------------------------------------------
\* The profile merger on its own
\* ------------------------------------------------------------------------

\* Merges applied in one behaviour
MaxMerges == 3

\* Values an insight map carries for a list field and for a scalar field
ListValues == {<< >>, <<U_chal>>, <<U_cost>>, <<U_chal, U_chal>>, <<U_chal, U_cost>>}

ScalarValues == {"", "acme", "globex"}

\* Insight maps: one field each, and the maps the extractor builds
InsightMaps ==
    {[k \in {f} |-> v] : f \in ScalarFields, v \in ScalarValues}
    \cup {[k \in {f} |-> v] : f \in {"pain_points", "interests"}, v \in ListValues}
    \cup {_extract_profile_insights(u) : u \in {U_urgent, U_cost, U_chal, U_ok}}

\* The variables of the sessions, which the study of a pure function leaves
\* as they start
SessionsIdle ==
    UNCHANGED <<active_sessions, orch, message_callbacks, is_connected, calls,
                started, ret>>

SessionsInit ==
    /\ active_sessions = {}
    /\ orch = [s \in {} |-> NewOrchestrator]
    /\ message_callbacks = << >>
    /\ is_connected = FALSE
    /\ calls = [c \in CallIds |-> Idle]
    /\ started = NoCall
    /\ ret = NoReturn

MergeInit ==
    /\ SessionsInit
    /\ probe = [fn |-> "merge", n |-> 0, profile |-> EmptyProfile,
                insights |-> [k \in {} |-> None]]

\* profile = update_customer_profile(profile, new_insights)
Merge(new_insights) ==
    /\ probe.fn = "merge"
    /\ probe.n < MaxMerges
    /\ probe' = [fn |-> "merge", n |-> probe.n + 1,
                 profile |-> update_customer_profile(probe.profile, new_insights),
                 insights |-> new_insights]
    /\ SessionsIdle

MergeNext == \E new_insights \in InsightMaps : Merge(new_insights)

MergeSpec == MergeInit /\ [][MergeNext]_vars

\* ------------------------------------------------------------------------
\* The stage completion scorer on its own
\* ------------------------------------------------------------------------

\* Pain points in the profile handed to the scorer
MaxPainPoints == 6

\* Stage names handed to the scorer: the five stages and names outside them
StageNames == Stages \cup {"interrupt", "bogus"}

\* Windows of recent messages, the empty one included
Windows ==
    {<< >>,
     <<Message("customer", U_chal, "opening", "transcript")>>,
     <<Message("customer", U_chal, "opening", "transcript"),
       Message("customer", U_cost, "opening", "transcript")>>,
     <<Message("seller", U_cost, "pitch", "transcript")>>,
     <<Message("customer", <<"yes", "proceed">>, "closing", "transcript")>>}

\* A profile with n pain points, with or without a budget range
ProfileWith(n, budget_range) ==
    [EmptyProfile EXCEPT !.pain_points = [i \in 1..n |-> [j \in 1..i |-> "challenge"]],
                         !.budget_range = budget_range]

ScoredProfiles ==
    {ProfileWith(n, b) : n \in 0..MaxPainPoints, b \in {None, "mentioned"}}

ScoreInit ==
    /\ SessionsInit
    /\ probe \in {[fn |-> "score", stage |-> st, recent_messages |-> w,
                   profile |-> p, done |-> FALSE, score |-> 0] :
                  st \in StageNames, w \in Windows, p \in ScoredProfiles}

\* score = _calculate_stage_completion(stage, recent_messages, profile)
Score ==
    /\ probe.fn = "score"
    /\ ~probe.done
    /\ probe' = [probe EXCEPT
                   !.done = TRUE,
                   !.score = _calculate_stage_completion(probe.stage,
                                 probe.recent_messages, probe.profile)]
    /\ SessionsIdle

ScoreSpec == ScoreInit /\ [][Score]_vars

\* ------------------------------------------------------------------------
\* The closing readiness score on its own
\* ------------------------------------------------------------------------

\* Python floats are IEEE-754 doubles.  A double x is held as [k, d] with
\* x = k/1000 + d * 2^-57 / 125: k counts thousandths exactly and d is the
\* distance of the double from k/1000.  Every double met here is a multiple
\* of 2^-57, the spacing of doubles around 0.05, so d is an integer.  The
\* thousandth k/1000 is k * 2^54 of these units.

RECURSIVE Pow2Mod(_, _)
Pow2Mod(n, m) == IF n = 0 THEN 1 % m ELSE (2 * Pow2Mod(n - 1, m)) % m

RECURSIVE Pow2(_)
Pow2(n) == IF n = 0 THEN 1 ELSE 2 * Pow2(n - 1)

\* Doubles in [2^(j-5), 2^(j-4)) are 125 * 2^j units apart (53-bit mantissa);
\* below 2^-5 every multiple of 2^-57 is a double.
GridExp(k, d) ==
    IF k > 1000 \/ (k = 1000 /\ d >= 0) THEN 5
    ELSE IF k > 500 \/ (k = 500 /\ d >= 0) THEN 4
    ELSE IF k > 250 \/ (k = 250 /\ d >= 0) THEN 3
    ELSE IF k > 125 \/ (k = 125 /\ d >= 0) THEN 2
    ELSE IF k >= 63 THEN 1
    ELSE 0

\* (k * 2^54 + d) modulo the spacing 125 * 2^j
GridRem(k, d, j) ==
    (Pow2(j) * (((k % 125) * Pow2Mod(54 - j, 125)) % 125) + d) % (125 * Pow2(j))

\* Round a non-negative exact value to the nearest double, ties to even
RoundPositive(k, d) ==
    LET j == GridExp(k, d)
        g == 125 * Pow2(j)
        r == GridRem(k, d, j)
        down == [k |-> k, d |-> d - r]
        up == [k |-> k, d |-> d - r + g]
    IN IF 2 * r < g THEN down
       ELSE IF 2 * r > g THEN up
       ELSE IF GridRem(k, d, j + 1) = r THEN down ELSE up

\* The double nearest to the exact value k/1000 + d units
RoundNearest(k, d) ==
    IF k < 0 \/ (k = 0 /\ d < 0)
    THEN LET x == RoundPositive(-k, -d) IN [k |-> -x.k, d |-> -x.d]
    ELSE RoundPositive(k, d)

\* A decimal literal of the source, in thousandths
Float(k) == RoundNearest(k, 0)

FloatAdd(x, y) == RoundNearest(x.k + y.k, x.d + y.d)

FloatSub(x, y) == RoundNearest(x.k - y.k, x.d - y.d)

\* int * float
FloatMul(n, x) == RoundNearest(n * x.k, n * x.d)

FloatLess(x, y) == x.k < y.k \/ (x.k = y.k /\ x.d < y.d)

\* min(x, y) and max(x, y) of Python: y only when it is strictly beyond x
FloatMin(x, y) == IF FloatLess(y, x) THEN y ELSE x

FloatMax(x, y) == IF FloatLess(x, y) THEN y ELSE x

engagement_scores(engagement) ==
    CASE engagement = "high" -> Float(200)
      [] engagement = "medium" -> Float(100)
      [] OTHER -> Float(0)

authority_scores(authority) ==
    CASE authority = "high" -> Float(150)
      [] authority = "medium" -> Float(100)
      [] authority = "low" -> Float(50)
      [] OTHER -> Float(0)

urgency_scores(urgency) ==
    CASE urgency = "high" -> Float(150)
      [] urgency = "medium" -> Float(100)
      [] urgency = "unknown" -> Float(50)
      [] OTHER -> Float(0)

_calculate_readiness_score(buying_signals, objections_resolved, engagement, authority, urgency, risks) ==
    LET s0 == Float(0)
        s1 == FloatAdd(s0, FloatMin(Float(300), FloatMul(buying_signals, Float(60))))
        s2 == IF objections_resolved THEN FloatAdd(s1, Float(200)) ELSE s1
        s3 == FloatAdd(s2, engagement_scores(engagement))
        s4 == FloatAdd(s3, authority_scores(authority))
        s5 == FloatAdd(s4, urgency_scores(urgency))
        s6 == FloatSub(s5, FloatMin(Float(250), FloatMul(risks, Float(50))))
    IN FloatMax(Float(0), FloatMin(Float(1000), s6))

_get_closing_recommendation(readiness_score) ==
    IF ~FloatLess(readiness_score, Float(800)) THEN "strong_close"
    ELSE IF ~FloatLess(readiness_score, Float(600)) THEN "trial_close"
    ELSE IF ~FloatLess(readiness_score, Float(400)) THEN "soft_close"
    ELSE "more_discovery"

\* Largest count of buying signals and of risk factors handed to the score
MaxSignals == 5

MaxRisks == 5

ReadinessInit ==
    /\ SessionsInit
    /\ probe \in {[fn |-> "readiness", buying_signals |-> b,
                   objections_resolved |-> o, engagement |-> e, authority |-> a,
                   urgency |-> u, risks |-> r, done |-> FALSE,
                   score |-> Float(0), recommendation |-> None] :
                  b \in 0..MaxSignals, o \in BOOLEAN,
                  e \in {"high", "medium", "low"},
                  a \in {"high", "medium", "low", "unknown"},
                  u \in {"high", "medium", "low", "unknown"},
                  r \in 0..MaxRisks}

\* readiness_score = _calculate_readiness_score(...);
\* recommendation = _get_closing_recommendation(readiness_score)
Readiness ==
    /\ probe.fn = "readiness"
    /\ ~probe.done
    /\ LET readiness_score ==
               _calculate_readiness_score(probe.buying_signals,
                   probe.objections_resolved, probe.engagement, probe.authority,
                   probe.urgency, probe.risks)
       IN probe' = [probe EXCEPT
                      !.done = TRUE,
                      !.score = readiness_score,
                      !.recommendation = _get_closing_recommendation(readiness_score)]
    /\ SessionsIdle

ReadinessSpec == ReadinessInit /\ [][Readiness]_vars

\* ------------------------------------------------------------------------
\* The interrupt classifier on its own
\* ------------------------------------------------------------------------

\* Phrases in one interruption text
MaxPhrases == 3

\* Indicator phrases of several interrupt types, and one that is none
Phrases == {"urgent", "problem", "also", "what", "great", "ok"}

RECURSIVE TextsUpTo(_)
TextsUpTo(n) ==
    IF n = 0 THEN {<< >>}
    ELSE LET shorter == TextsUpTo(n - 1)
         IN shorter \cup {Append(t, p) : t \in shorter, p \in Phrases}

InterruptTexts == TextsUpTo(MaxPhrases) \ {<< >>}

ClassifyInit ==
    /\ SessionsInit
    /\ probe \in {[fn |-> "classify", text |-> t, done |-> FALSE,
                   analysis |-> [raised |-> FALSE, type |-> None,
                                 priority |-> None, flow_impact |-> None],
                   pause |-> FALSE, response |-> NoResponse] : t \in InterruptTexts}

\* analysis = _analyze_interruption(text, ...);
\* pause = should_pause_main_conversation(analysis);
\* response = InterruptAgent.handle_interrupt(context, text, speaker)
Classify ==
    /\ probe.fn = "classify"
    /\ ~probe.done
    /\ LET analysis == interrupt_analysis(probe.text)
       IN probe' = [probe EXCEPT
                      !.done = TRUE,
                      !.analysis = analysis,
                      !.pause = IF analysis.raised THEN FALSE
                                ELSE should_pause_main_conversation(analysis),
                      !.response = interrupt_agent_handle_interrupt(probe.text)]
    /\ SessionsIdle

ClassifySpec == ClassifyInit /\ [][Classify]_vars

\* ------------------------------------------------------------------------
\* The advance decision on its own
\* ------------------------------------------------------------------------

\* x / 2: halving a double is exact; the thousandths met here are even
FloatHalf(x) == [k |-> x.k \div 2, d |-> x.d \div 2]

\* The discovery branch of _calculate_stage_completion in doubles
discovery_completion(profile) ==
    LET pain_points_score ==
            FloatMin(FloatMul(Len(profile.pain_points), Float(300)), Float(1000))
        qualification_score ==
            IF Truthy(profile.budget_range) \/ Truthy(profile.timeline)
            THEN Float(500) ELSE Float(0)
    IN FloatHalf(FloatAdd(pain_points_score, qualification_score))

\* Profiles handed to determine_next_stage: pain points, budget range, timeline
DecidedProfiles ==
    {[ProfileWith(n, b) EXCEPT !.timeline = t] :
        n \in 0..MaxPainPoints, b \in {None, "mentioned"}, t \in {None, "urgent"}}

DecideInit ==
    /\ SessionsInit
    /\ probe \in {[fn |-> "decide", stage |-> st, history |-> h, profile |-> p,
                   done |-> FALSE,
                   analysis |-> [should_advance |-> FALSE, next_stage |-> None,
                                 completion_score |-> 0]] :
                  st \in Stages, h \in Windows, p \in DecidedProfiles}

\* stage_analysis = determine_next_stage(current_stage, history, profile)
Decide ==
    /\ probe.fn = "decide"
    /\ ~probe.done
    /\ probe' = [probe EXCEPT
                   !.done = TRUE,
                   !.analysis = determine_next_stage(probe.stage, probe.history,
                                                     probe.profile)]
    /\ SessionsIdle

DecideSpec == DecideInit /\ [][Decide]_vars

\* ------------------------------------------------------------------------
\* The suggestion pipeline on its own
\* ------------------------------------------------------------------------

NoResult == [exc |-> FALSE, suggestion |-> NoSuggestion, stored |-> FALSE, path |-> None]

\* model.generate_content raises
CollaboratorFails == [kind |-> "error", text |-> << >>, conf |-> NoConf]

PipelineInit ==
    /\ SessionsInit
    /\ probe \in {[fn |-> "generate", stage |-> st, history |-> h, outcome |-> g,
                   done |-> FALSE, result |-> NoResult, on_failure |-> NoResult] :
                  st \in StageNames, h \in Windows, g \in GenOutcomes}

\* generate_next_suggestion of a session in the given stage with the given
\* history, run on the collaborator's outcome and on a collaborator failure
Pipeline ==
    /\ probe.fn = "generate"
    /\ ~probe.done
    /\ LET o == [NewOrchestrator EXCEPT !.current_stage = probe.stage,
                                        !.conversation_history = probe.history]
           agent == AgentFor(o.current_stage)
       IN probe' = [probe EXCEPT
                      !.done = TRUE,
                      !.result = generate_next_suggestion(agent, BuildContext(o),
                                     probe.outcome, o.current_stage),
                      !.on_failure = generate_next_suggestion(agent, BuildContext(o),
                                     CollaboratorFails, o.current_stage)]
    /\ SessionsIdle

PipelineSpec == PipelineInit /\ [][Pipeline]_vars

\* ------------------------------------------------------------------------
\* The analyzer context on its own
\* ------------------------------------------------------------------------

\* Interrupts handled before the context is built
MaxInterrupts == 6

\* The session after n interrupts by one speaker
RECURSIVE Interrupted(_, _, _)
Interrupted(o, i, n) ==
    IF n = 0 THEN o
    ELSE handle_interrupt(Interrupted(o, i, n - 1), i[1], i[2], n)

\* Sessions a context is built from: a new session, moved to another stage or
\* not, and then interrupted up to MaxInterrupts times
BuiltFrom ==
    {Interrupted(IF st = "opening" THEN NewOrchestrator
                 ELSE advance_conversation_stage(NewOrchestrator, st, 0), i, n) :
        st \in Stages, i \in Interrupts, n \in 0..MaxInterrupts}

ContextInit ==
    /\ SessionsInit
    /\ probe \in {[fn |-> "context", session |-> o, at_build |-> o, built |-> FALSE,
                   interleaved |-> FALSE, ctx |-> NoContext] : o \in BuiltFrom}

\* context = AgentContext(...) in generate_next_suggestion
Build ==
    /\ probe.fn = "context"
    /\ ~probe.built
    /\ probe' = [probe EXCEPT !.built = TRUE, !.ctx = BuildContext(probe.session)]
    /\ SessionsIdle

\* handle_interrupt runs on the session while the generation is awaited
Interleave(speaker, text) ==
    /\ probe.fn = "context"
    /\ probe.built
    /\ ~probe.interleaved
    /\ probe' = [probe EXCEPT
                   !.interleaved = TRUE,
                   !.session = handle_interrupt(@, speaker, text, MaxInterrupts + 1)]
    /\ SessionsIdle

ContextNext ==
    \/ Build
    \/ \E i \in Interrupts : Interleave(i[1], i[2])

ContextSpec == ContextInit /\ [][ContextNext]_vars

\* ------------------------------------------------------------------------
\* Properties
\* ------------------------------------------------------------------------

\* A call started in this step
CallStarted == started'.n # started.n

Last(seq) == seq[Len(seq)]

\* C1: after any advance_conversation_stage(target), whatever the target, the
\* current stage of every session is one of the five real stages and never
\* "interrupt".  The code assigns the target unchecked, so this fails.
C1_StageIsReal ==
    \A s \in DOMAIN orch : orch[s].current_stage \in Stages

\* C2: while a call of a session is suspended in the generation call, a second
\* state-mutating call started on the same session touches no state of the
\* session: the two calls do not interleave.  The code has no lock, so this
\* fails.
C2_Serialized ==
    [][\A c \in CallIds :
          (/\ calls[c].pc # "idle"
           /\ CallStarted
           /\ started'.sid = calls[c].sid
           /\ started'.op \in {"process_customer_input", "handle_interrupt",
                               "advance_conversation_stage"})
          => orch'[calls[c].sid] = orch[calls[c].sid]]_vars

\* C3: when the generation collaborator fails on the call made by the
\* suggestion pipeline, the suggestion returned is the fallback of the analyzer
\* of the stage, with confidence 0.6 (discovery, pitch, objection, closing) or
\* 0.5 (interrupt).  The code returns the orchestrator's own fallback with
\* confidence 0.5, so this fails.
C3_AnalyzerFallback ==
    (/\ ret.op = "generate_next_suggestion"
     /\ ret.collaborator_failed
     /\ ret.agent \in {"discovery", "pitch", "objection", "closing", "interrupt"})
    => /\ ~ret.raised
       /\ ret.suggestion.confidence = AgentFallbackConfidence(ret.agent)
       /\ ret.suggestion.text =
             (IF AgentFallback(ret.agent).has_text
              THEN AgentFallback(ret.agent).text ELSE DefaultSuggestionText)

C5_PainPointsGrow ==
    [][\A s \in DOMAIN orch :
          IsPrefix(orch[s].customer_profile.pain_points,
                   orch'[s].customer_profile.pain_points)]_vars

\* C5 happens: process_customer_input has added a second pain point.
C5_Witness ==
    /\ started.op = "process_customer_input"
    /\ started.sid \in DOMAIN orch
    /\ Len(orch[started.sid].customer_profile.pain_points) >= 2

\* C6: a generation call that was in flight when its session was cleaned up
\* changes no field of the session when it completes.  The code applies the
\* result (last_suggestion is assigned), so this fails.
C6_OrphanDiscarded ==
    [][\A c \in CallIds :
          (calls[c].orphaned /\ calls'[c] # calls[c])
          => orch'[calls[c].sid] = orch[calls[c].sid]]_vars

\* C7: sessions share nothing but the registry: a call of one session never
\* takes away the transcription connection that another live session with
\* active audio is using.  The code shares one transcription service between
\* all sessions, so this fails.
C7_OnlyRegistryShared ==
    [][\A s \in active_sessions : \A t \in active_sessions \ {s} :
          (/\ CallStarted
           /\ started'.sid = s
           /\ orch[t].audio_processing_active
           /\ is_connected)
          => is_connected']_vars

\* C8: whenever the suggestion pipeline returns a suggestion, last_suggestion
\* of the session is that suggestion, on every path.  The except path of the
\* code returns a suggestion it does not store, so this fails.
C8_LastSuggestionIsReturned ==
    ret.op \in {"generate_next_suggestion", "advance_conversation_stage",
                "process_customer_input"}
    => orch[ret.sid].last_suggestion = ret.suggestion

\* C9: every handle_interrupt(speaker, text) leaves current_stage as it was
\* and pushes exactly one interrupt entry holding the stage, the timestamp, the
\* speaker and the text, whether the analyzer succeeds or fails.
C9_InterruptFrame ==
    [][(CallStarted /\ started'.op = "handle_interrupt")
       => LET s == started'.sid
              before == orch[s].context_stack
              after == orch'[s].context_stack
          IN /\ orch'[s].current_stage = orch[s].current_stage
             /\ Len(after) = Len(before) + 1
             /\ SubSeq(after, 1, Len(before)) = before
             /\ Last(after).kind = "interrupted"
             /\ Last(after).stage = orch[s].current_stage
             /\ Last(after).timestamp = started'.n
             /\ Last(after).speaker = started'.speaker
             /\ Last(after).text = started'.text]_vars

\* C9 happens: an interrupt whose analyzer failed was handled in a stage other
\* than the first one.
C9_Witness ==
    /\ started.op = "handle_interrupt"
    /\ ret.op = "handle_interrupt"
    /\ ret.response.analyzer_failed
    /\ orch[started.sid].current_stage = "discovery"
    /\ Last(orch[started.sid].context_stack).kind = "interrupted"
    /\ Last(orch[started.sid].context_stack).stage = "discovery"

\* C10: every advance_conversation_stage(target), legal or not, sets
\* current_stage to target, pushes exactly one stage-transition entry from the
\* previous stage to target, and runs the suggestion pipeline for the new
\* stage.
C10_AdvanceAccepted ==
    [][(CallStarted /\ started'.advanced_to # None)
       => LET s == started'.sid
              target == started'.advanced_to
              before == orch[s].context_stack
              after == orch'[s].context_stack
          IN /\ orch'[s].current_stage = target
             /\ Len(after) = Len(before) + 1
             /\ SubSeq(after, 1, Len(before)) = before
             /\ Last(after).kind = "stage_transition"
             /\ Last(after).from_stage = orch[s].current_stage
             /\ Last(after).to_stage = target
             /\ \E c \in CallIds :
                   /\ calls[c].pc = "idle"
                   /\ calls'[c].pc \in {"adv", "pci_adv"}
                   /\ calls'[c].sid = s
                   /\ calls'[c].agent = AgentFor(target)
                   /\ calls'[c].ctx.current_stage = target]_vars

\* C10 happens: a target outside the legal transitions of the closing stage
\* was accepted.
C10_Witness ==
    /\ started.op = "advance_conversation_stage"
    /\ started.target = "discovery"
    /\ orch[started.sid].current_stage = "discovery"
    /\ Last(orch[started.sid].context_stack).from_stage = "closing"
    /\ Last(orch[started.sid].context_stack).to_stage = "discovery"

\* C11: the context stack is append-only: every step leaves the stack before
\* it as a prefix of the stack after it, and the stack grows only in a step
\* that runs handle_interrupt or advance_conversation_stage, by exactly one
\* entry.
C11_StackAppendOnly ==
    [][\A s \in DOMAIN orch :
          LET before == orch[s].context_stack
              after == orch'[s].context_stack
          IN /\ IsPrefix(before, after)
             /\ after # before
                => /\ CallStarted
                   /\ started'.sid = s
                   /\ started'.op = "handle_interrupt" \/ started'.advanced_to # None
                   /\ Len(after) = Len(before) + 1]_vars

\* C11 happens: a stack holds a stage transition below an interrupt and a
\* later operation has run on it.
C11_Witness ==
    \E s \in DOMAIN orch :
        /\ Len(orch[s].context_stack) >= 2
        /\ orch[s].context_stack[1].kind = "stage_transition"
        /\ orch[s].context_stack[2].kind = "interrupted"
        /\ started.n >= 3

\* C12: the message history is append-only: every step leaves the history
\* before it as a prefix of the history after it.
C12_HistoryAppendOnly ==
    [][\A s \in DOMAIN orch :
          IsPrefix(orch[s].conversation_history, orch'[s].conversation_history)]_vars

\* C12 happens: a history holds a transcribed message followed by an
\* interrupt message.
C12_Witness ==
    \E s \in DOMAIN orch :
        /\ Len(orch[s].conversation_history) >= 2
        /\ orch[s].conversation_history[1].kind = "transcript"
        /\ orch[s].conversation_history[2].kind = "interrupt"

\* C13: once a session has been cleaned up, a transcript event delivered to
\* its handler changes nothing of the session.  The handler stays registered
\* and tests no closed flag, so this fails.
C13_EndedSessionIgnoresEvents ==
    [][\A s \in DOMAIN orch \ active_sessions :
          (CallStarted /\ started'.op = "_on_transcription_received"
           /\ started'.sid = s)
          => orch'[s] = orch[s]]_vars

NoDuplicates(seq) == Cardinality(Range(seq)) = Len(seq)

\* C15: merging the same insight map twice gives the profile that merging it
\* once gives, for every profile reached by merges and every insight map.
C15_MergeIdempotent ==
    probe.fn = "merge"
    => \A m \in InsightMaps :
          update_customer_profile(update_customer_profile(probe.profile, m), m)
          = update_customer_profile(probe.profile, m)

\* C15 happens: a map that lists one item twice was merged into a profile
\* that already held facts.
C15_Witness ==
    /\ probe.fn = "merge"
    /\ probe.n >= 2
    /\ probe.insights = [k \in {"pain_points"} |-> <<U_chal, U_cost>>]
    /\ Len(probe.profile.pain_points) >= 2
    /\ Truthy(probe.profile.budget_range)

\* C16: a merge never clears a field: a scalar that was non-empty stays
\* non-empty, changes only to a non-empty value the map carries, and the lists
\* only grow at the end.
C16_MergeNeverClears ==
    [][(probe.fn = "merge" /\ probe'.fn = "merge")
       => /\ \A f \in ScalarFields :
                /\ Truthy(probe.profile[f]) => Truthy(probe'.profile[f])
                /\ probe'.profile[f] # probe.profile[f]
                   => /\ f \in DOMAIN probe'.insights
                      /\ Truthy(probe'.insights[f])
                      /\ probe'.profile[f] = probe'.insights[f]
          /\ IsPrefix(probe.profile.pain_points, probe'.profile.pain_points)
          /\ IsPrefix(probe.profile.interests, probe'.profile.interests)]_vars

\* C16 happens: a map carrying an empty value met a field that was set.
C16_Witness ==
    /\ probe.fn = "merge"
    /\ probe.insights = [k \in {"company"} |-> ""]
    /\ probe.profile.company = "acme"

\* C17: starting from the empty profile, no merge leaves a duplicate in
\* pain_points or interests.  The merger filters the new items against the
\* items already stored only, so a map listing a new item twice stores it
\* twice and this fails.
C17_NoDuplicateItems ==
    probe.fn = "merge"
    => /\ NoDuplicates(probe.profile.pain_points)
       /\ NoDuplicates(probe.profile.interests)

\* C18: the stage completion score lies in [0,1] (0..100 hundredths) for
\* every stage name, every window of recent messages and every profile.
C18_ScoreInUnitInterval ==
    (probe.fn = "score" /\ probe.done) => (probe.score >= 0 /\ probe.score <= 100)

\* C18 happens: discovery was scored for a profile whose pain points alone
\* exceed the clamp, with a budget range and an empty window.
C18_Witness ==
    /\ probe.fn = "score"
    /\ probe.done
    /\ probe.stage = "discovery"
    /\ probe.recent_messages = << >>
    /\ Len(probe.profile.pain_points) = MaxPainPoints
    /\ Truthy(probe.profile.budget_range)
    /\ probe.score = 75

\* The weighted sum of the specification, in thousandths, clamped to [0,1]
WeightedSum(b, o, e, a, u, r) ==
    LET sum == Min(300, b * 60)
               + (IF o THEN 200 ELSE 0)
               + (CASE e = "high" -> 200 [] e = "medium" -> 100 [] OTHER -> 0)
               + (CASE a = "high" -> 150 [] a = "medium" -> 100
                    [] a = "low" -> 50 [] OTHER -> 0)
               + (CASE u = "high" -> 150 [] u = "medium" -> 100
                    [] u = "unknown" -> 50 [] OTHER -> 0)
               - Min(250, r * 50)
    IN Max(0, Min(1000, sum))

Band(thousandths) ==
    IF thousandths >= 800 THEN "strong_close"
    ELSE IF thousandths >= 600 THEN "trial_close"
    ELSE IF thousandths >= 400 THEN "soft_close"
    ELSE "more_discovery"

\* C19: for every input in range the closing readiness score is the weighted
\* sum clamped to [0,1] (to the rounding of a float) and the recommendation is
\* the band of that sum.  The score is summed in floats, and a sum that is
\* exactly 0.4, 0.6 or 0.8 can come out one step below the literal it is
\* compared with, so the recommendation drops a band and this fails.
C19_ReadinessFollowsSum ==
    (probe.fn = "readiness" /\ probe.done)
    => LET sum == WeightedSum(probe.buying_signals, probe.objections_resolved,
                              probe.engagement, probe.authority, probe.urgency,
                              probe.risks)
       IN /\ probe.score.k = sum
          /\ probe.recommendation = Band(sum)

\* C20: every interruption text that contains "urgent" is classified with
\* priority critical and pauses the main conversation.  The classifier keeps
\* the first type with the highest indicator count, and "objection" and
\* "tangent" come before "urgency", so a text that also names one of their
\* indicators gets their priority and this fails.
C20_UrgentIsCritical ==
    (probe.fn = "classify" /\ probe.done
     /\ Contains(Strip(LowerText(probe.text)), "urgent"))
    => /\ probe.analysis.priority = "critical"
       /\ probe.pause

\* C21: every process_customer_input call appends the customer Message to
\* the history, merges the extracted insights into the profile, asks the
\* scorer about the state so obtained, advances when the scorer says so and
\* ends in generate_next_suggestion.  The Message is appended by
\* _on_transcription_received before it calls process_customer_input, not by
\* process_customer_input, so a call of process_customer_input on its own
\* leaves the history as it was and this fails.
C21_InputStepsInOrder ==
    [][\A s \in DOMAIN orch :
          (/\ CallStarted
           /\ started'.sid = s
           /\ \/ started'.op = "process_customer_input"
              \/ /\ started'.op = "_on_transcription_received"
                 /\ started'.is_final
                 /\ Strip(started'.text) # << >>
                 /\ started'.speaker = "customer")
          => LET text == IF started'.op = "process_customer_input"
                         THEN started'.text ELSE Strip(started'.text)
                 appended ==
                     Append(orch[s].conversation_history,
                            Message("customer", text, orch[s].current_stage,
                                    "transcript"))
                 merged == pci_update_profile(
                               [orch[s] EXCEPT !.conversation_history = appended], text)
                 analysis == determine_next_stage(merged.current_stage,
                                 merged.conversation_history, merged.customer_profile)
             IN /\ orch'[s].conversation_history = appended
                /\ orch'[s].customer_profile = merged.customer_profile
                /\ orch'[s].current_stage =
                      IF analysis.should_advance THEN analysis.next_stage
                      ELSE orch[s].current_stage
                /\ \E c \in CallIds :
                      calls'[c].sid = s /\ calls'[c].pc \in {"pci", "pci_adv"}]_vars

\* C22 as stated: for each of the five stages determine_next_stage reports
\* should_advance exactly when the completion score is at least 0.7, and then
\* names one target stage.  Closing has no next stage and reports
\* should_advance false whatever the score.
C22_AdvanceIffThreshold ==
    (probe.fn = "decide" /\ probe.done)
    => /\ probe.analysis.should_advance
          <=> probe.analysis.completion_score >= AdvanceThreshold
       /\ probe.analysis.should_advance => probe.analysis.next_stage \in Stages

\* C22: determine_next_stage reports should_advance exactly when the
\* completion score is at least 0.7 and the stage is not closing, and then
\* names one target stage, which is a stage.
C22_AdvanceIffThresholdAndNext ==
    (probe.fn = "decide" /\ probe.done)
    => /\ probe.analysis.should_advance
          <=> (probe.analysis.completion_score >= AdvanceThreshold
               /\ probe.stage # "closing")
       /\ probe.analysis.should_advance => probe.analysis.next_stage \in Stages
       /\ ~probe.analysis.should_advance => probe.analysis.next_stage = None

\* C22 happens: a pitch window scored exactly 0.7 and the decision advanced.
C22_Witness ==
    /\ probe.fn = "decide"
    /\ probe.done
    /\ probe.stage = "pitch"
    /\ probe.analysis.completion_score = AdvanceThreshold
    /\ probe.analysis.should_advance
    /\ probe.analysis.next_stage = "objection"

\* C23: when the collaborator's output cannot be parsed as a structured
\* object, the pipeline gives the result it gives when the collaborator call
\* fails, and the unparseable text is not the suggestion.  The wrapper puts
\* text that holds no JSON object into the "suggestion" field with confidence
\* 0.8, so this fails.
C23_UnparseableIsFailure ==
    (probe.fn = "generate" /\ probe.done /\ probe.outcome.kind \in {"text", "nondict"})
    => /\ probe.result = probe.on_failure
       /\ probe.outcome.kind = "text"
          => probe.result.suggestion.text # Strip(probe.outcome.text)

\* C24: the context handed to the analyzer holds the last 5 messages at most
\* as recent messages and the last 3 context-stack entries at most, as they
\* were when the context was built, whatever is appended to the session
\* afterwards.  The context is given the whole context stack, so a session
\* with more than 3 entries on its stack makes this fail.
C24_ContextIsBoundedSnapshot ==
    (probe.fn = "context" /\ probe.built)
    => /\ Len(probe.ctx.recent_messages) <= 5
       /\ probe.ctx.recent_messages = LastN(probe.at_build.conversation_history, 5)
       /\ probe.ctx.conversation_history = probe.at_build.conversation_history
       /\ Len(probe.ctx.context_stack) <= 3
       /\ probe.ctx.context_stack = LastN(probe.at_build.context_stack, 3)

\* The number of indicators of type number i that the text holds
IndicatorScore(i, text) ==
    CountIn(Strip(LowerText(text)), interrupt_indicators(InterruptTypeOrder[i]))

AutomaticMoves ==
    {<<"opening", "discovery">>, <<"discovery", "pitch">>,
     <<"pitch", "objection">>, <<"objection", "pitch">>}

\* C26: a step that is not an advance_conversation_stage request of the
\* caller changes current_stage only from opening to discovery, from
\* discovery to pitch, from pitch to objection or from objection to pitch; so
\* without such a request the stage never becomes closing.
C26_NoAutomaticClosing ==
    [][\A s \in DOMAIN orch :
          (/\ orch'[s].current_stage # orch[s].current_stage
           /\ ~(CallStarted /\ started'.op = "advance_conversation_stage"))
          => <<orch[s].current_stage, orch'[s].current_stage>> \in AutomaticMoves]_vars

\* C26 happens: a transcript event moved a session from objection to pitch.
C26_Witness ==
    \E s \in DOMAIN orch :
       /\ started.op = "_on_transcription_received"
       /\ started.sid = s
       /\ started.advanced_to = "pitch"
       /\ orch[s].current_stage = "pitch"
       /\ Last(orch[s].context_stack).kind = "stage_transition"
       /\ Last(orch[s].context_stack).from_stage = "objection"

\* A step of process_customer_input, called on its own or by the transcript
\* handler
AutomaticStep(s) ==
    /\ CallStarted
    /\ started'.sid = s
    /\ started'.op \in {"process_customer_input", "_on_transcription_received"}

\* C27: every stage change process_customer_input makes on its own is listed
\* in the legal-transition table of the stage it leaves, and in closing it
\* makes none, whatever the completion score.
C27_AutomaticMovesAreLegal ==
    [][\A s \in DOMAIN orch :
          AutomaticStep(s)
          => /\ orch'[s].current_stage # orch[s].current_stage
                => orch'[s].current_stage \in get_valid_transitions(orch[s].current_stage)
             /\ orch[s].current_stage = "closing"
                => orch'[s].current_stage = "closing"]_vars

\* C27 happens: in closing a customer's commitment scored 0.9 and the stage
\* stayed closing.
C27_Witness ==
    \E s \in DOMAIN orch :
       /\ started.op = "_on_transcription_received"
       /\ started.sid = s
       /\ started.text = U_yes
       /\ orch[s].current_stage = "closing"
       /\ Last(orch[s].conversation_history).stage = "closing"
       /\ _calculate_stage_completion("closing",
              LastN(orch[s].conversation_history, 5), orch[s].customer_profile) = 90

\* The generation call of a coroutine of session s answers in this step
GenerationReturns(s) ==
    /\ calls' # calls
    /\ started' = started
    /\ ret'.sid = s

GenericFallback(suggestion) ==
    suggestion.type = "question" /\ suggestion.confidence = 50

IsStageTransition(entry) == entry.kind = "stage_transition"

\* The stage-transition entries of a context stack, oldest first
StageTransitions(stack) == SelectSeq(stack, IsStageTransition)

\* C29: in every reachable state current_stage is the to_stage of the most
\* recent stage-transition entry of the context stack (opening when there is
\* none), and the from_stage of every stage-transition entry is the to_stage
\* of the stage-transition entry before it (opening for the first).
C29_StackTracksStage ==
    \A s \in DOMAIN orch :
       LET transitions == StageTransitions(orch[s].context_stack) IN
       /\ orch[s].current_stage =
              IF transitions = << >> THEN "opening"
              ELSE transitions[Len(transitions)].to_stage
       /\ \A i \in 1..Len(transitions) :
              transitions[i].from_stage =
                  IF i = 1 THEN "opening" ELSE transitions[i - 1].to_stage

\* C29 happens: two stage changes with an interrupt entry between them are on
\* the stack while a call of the session is still suspended.
C29_Witness ==
    \E s \in DOMAIN orch :
       LET stack == orch[s].context_stack IN
       /\ Len(StageTransitions(stack)) >= 2
       /\ Len(StageTransitions(stack)) < Len(stack)
       /\ stack[1].kind = "stage_transition"
       /\ stack[Len(stack)].kind = "stage_transition"
       /\ stack[1].to_stage # stack[Len(stack)].to_stage
       /\ \E c \in CallIds : calls[c].pc # "idle" /\ calls[c].sid = s

\* A budget range or a timeline of the profile is known
QualificationKnown(profile) ==
    profile.budget_range \notin {None, ""} \/ profile.timeline \notin {None, ""}

\* C30: in the discovery stage the completion score never exceeds 0.75; it
\* reaches the 0.7 advance threshold, and the stage advances, exactly when the
\* profile holds at least 3 pain points and a budget range or a timeline is
\* known; with 2 pain points the stage does not advance.
C30_DiscoveryNeedsThreePainPoints ==
    (probe.fn = "decide" /\ probe.done /\ probe.stage = "discovery")
    => LET score == discovery_completion(probe.profile)
           qualified == /\ Len(probe.profile.pain_points) >= 3
                        /\ QualificationKnown(probe.profile)
       IN /\ ~FloatLess(Float(750), score)
          /\ probe.analysis.completion_score <= 75
          /\ ~FloatLess(score, Float(700)) <=> qualified
          /\ probe.analysis.completion_score >= AdvanceThreshold <=> qualified
          /\ probe.analysis.should_advance <=> qualified
          /\ Len(probe.profile.pain_points) = 2 => ~probe.analysis.should_advance

\* C30 happens: discovery was decided for 3 pain points with a known timeline
\* and no budget range, and the stage advances to the pitch on a score that
\* is the double 0.7.
C30_Witness ==
    /\ probe.fn = "decide" /\ probe.done /\ probe.stage = "discovery"
    /\ Len(probe.profile.pain_points) = 3
    /\ probe.profile.budget_range = None
    /\ probe.profile.timeline # None
    /\ discovery_completion(probe.profile) = Float(700)
    /\ probe.analysis.should_advance
    /\ probe.analysis.next_stage = "pitch"

=============================================================================
